---- MODULE Spec2Model ----
(***************************************************************************)
(* Model of the LinkedIn auto poster:                                      *)
(*   - ExternalMonitor (external-monitor script): start/stop, the ping     *)
(*     loop and pingApp's bounded retry;                                   *)
(*   - LinkedInContentService and the Server's two entry points to         *)
(*     runContentWorkflow (content cron, POST /trigger-post);              *)
(*   - the pure parts (processGeneratedContent, generateContent's          *)
(*     outcome, postToLinkedIn's guard) applied to enumerated inputs;      *)
(*   - the server process: environment validation, startup, the content    *)
(*     and keep-alive cron timers, KeepAliveService.pingServer.            *)
(***************************************************************************)
EXTENDS Integers, Sequences, FiniteSets, TLC

(* ------------------------------------------------------------------ *)
(* Bounds of the model                                                *)
(* ------------------------------------------------------------------ *)
\* number of ping loops start() may create in one behaviour
MaxLoops == 2
\* number of invocations (workflow runs, direct postToLinkedIn calls) in one behaviour
MaxRuns == 2
\* longest generated text handed to processGeneratedContent
MaxTextLen == 4
\* number of pingServer invocations in one behaviour
MaxPings == 2

(* ------------------------------------------------------------------ *)
(* ExternalMonitor: constants set by the constructor and the code     *)
(* ------------------------------------------------------------------ *)
pingInterval == 8 * 60 * 1000
retryCount == 3
BackoffMs == 30000
FirstPingDelayMs == 60000

VARIABLES
    isRunning,   \* ExternalMonitor.isRunning
    loops,       \* the pingLoop closures created by start(), one record each
    runs,        \* invocations of runContentWorkflow / postToLinkedIn, one record each
    response,    \* the settled axios.post of the generation call under test
    resultTOsendDeclared, \* whether the module of generateLinkedInContent declares resultTOsend
    generated,   \* what generateContent / generateLinkedInContent returned for `response`
    env,         \* process.env as the server reads it
    server,      \* the server process: how far startup got, its timers, its exit code
    pings        \* invocations of KeepAliveService.pingServer, one record each

monitorVars == <<isRunning, loops>>
serviceVars == <<runs>>
generatorVars == <<response, resultTOsendDeclared, generated>>
serverVars == <<env, server, pings>>

vars == <<isRunning, loops, runs, response, resultTOsendDeclared, generated,
          env, server, pings>>

LoopIds == 1..MaxLoops

\* Outcomes of one axios.get against /health:
\*   "200"   the promise resolves with status 200
\*   "2xx"   the promise resolves with another status axios accepts (201..299)
\*   "error" the promise rejects: timeout, network error, status outside 2xx
GetOutcomes == {"200", "2xx", "error"}

\* A loop that start() has not created yet.
NoLoop ==
    [pc |-> "none", delay |-> 0, attempt |-> 0, gets |-> 0, sleeps |-> 0,
     trace |-> <<>>, last |-> "none"]

\* setTimeout(pingLoop, ms): the loop waits for its timer.
ArmPingLoop(rec, ms) ==
    [rec EXCEPT !.pc = "timer", !.delay = ms]

\* axios.get(`${appUrl}/health`) of iteration n of pingApp's for loop.
SendGet(rec, n) ==
    [rec EXCEPT !.pc = "get", !.attempt = n, !.gets = @ + 1]

\* Variant of ReturnFromPingApp in which pingLoop reschedules only after a
\* successful ping.
ReturnFromPingApp_StopOnExhausted(rec, result) ==
    IF result = "true"
    THEN ArmPingLoop([rec EXCEPT !.last = result], pingInterval)
    ELSE [rec EXCEPT !.last = result, !.pc = "returned"]

\* pingApp returned `result`; pingLoop then schedules the next ping.
ReturnFromPingApp(rec, result) ==
    ArmPingLoop([rec EXCEPT !.last = result], pingInterval)

\* Variant of NextAttempt whose loop test is attempt < retryCount.
NextAttempt_OffByOne(rec) ==
    IF rec.attempt + 1 < retryCount
    THEN SendGet(rec, rec.attempt + 1)
    ELSE ReturnFromPingApp(rec, "false")

\* Variant of NextAttempt that gives up once stop() has been called.
NextAttempt_StopAware(rec) ==
    IF isRunning /\ rec.attempt + 1 <= retryCount
    THEN SendGet(rec, rec.attempt + 1)
    ELSE ReturnFromPingApp(rec, "false")

\* End of one iteration of the for loop: attempt++, test attempt <= retryCount,
\* and either the next axios.get or the fall-through to `return false`.
NextAttempt(rec) ==
    IF rec.attempt + 1 <= retryCount
    THEN SendGet(rec, rec.attempt + 1)
    ELSE ReturnFromPingApp(rec, "false")

\* Variant of OnResolved without the `return true`.
OnResolved_NoReturn(rec, status) ==
    NextAttempt(rec)

\* The promise resolved: status 200 returns true, any other status leaves the
\* try block without entering catch.
OnResolved(rec, status) ==
    IF status = "200"
    THEN ReturnFromPingApp(rec, "true")
    ELSE NextAttempt(rec)

\* The promise rejected: the catch block sleeps unless this was the last attempt.
OnRejected(rec) ==
    IF rec.attempt < retryCount
    THEN [rec EXCEPT !.pc = "sleep", !.delay = BackoffMs, !.sleeps = @ + 1]
    ELSE NextAttempt(rec)

\* pingApp entered from pingLoop: a new for loop, attempt = 1.
BeginPingApp(rec) ==
    SendGet([rec EXCEPT !.gets = 0, !.sleeps = 0, !.trace = <<>>], 1)

InitMonitor ==
    /\ isRunning = FALSE
    /\ loops = [l \in LoopIds |-> NoLoop]

\* start(): no-op when already running; otherwise sets isRunning, fires
\* getStatus() (which only logs) and arms the first pingLoop after one minute.
Start ==
    /\ IF isRunning
       THEN UNCHANGED <<isRunning, loops>>
       ELSE /\ \E l \in LoopIds :
                 /\ loops[l].pc = "none"
                 /\ \A m \in LoopIds : m < l => loops[m].pc # "none"
                 /\ loops' = [loops EXCEPT ![l] = ArmPingLoop(NoLoop, FirstPingDelayMs)]
            /\ isRunning' = TRUE
    /\ UNCHANGED <<serviceVars, generatorVars, serverVars>>

\* stop()
Stop ==
    /\ isRunning' = FALSE
    /\ UNCHANGED loops
    /\ UNCHANGED <<serviceVars, generatorVars, serverVars>>

\* The pingLoop timer of loop l fires.
PingLoopFire(l) ==
    /\ loops[l].pc = "timer"
    /\ loops' = [loops EXCEPT ![l] =
                    IF ~isRunning
                    THEN [@ EXCEPT !.pc = "returned"]
                    ELSE BeginPingApp(@)]
    /\ UNCHANGED isRunning
    /\ UNCHANGED <<serviceVars, generatorVars, serverVars>>

\* The pending axios.get of loop l settles with outcome o.
GetSettles(l, o) ==
    /\ loops[l].pc = "get"
    /\ LET seen == [loops[l] EXCEPT !.trace = Append(@, o)]
       IN  loops' = [loops EXCEPT ![l] =
                        IF o = "error" THEN OnRejected(seen) ELSE OnResolved(seen, o)]
    /\ UNCHANGED isRunning
    /\ UNCHANGED <<serviceVars, generatorVars, serverVars>>

\* The backoff sleep of loop l ends: the catch block is left and the for loop
\* goes on to its next iteration.
SleepDone(l) ==
    /\ loops[l].pc = "sleep"
    /\ loops' = [loops EXCEPT ![l] = NextAttempt(@)]
    /\ UNCHANGED isRunning
    /\ UNCHANGED <<serviceVars, generatorVars, serverVars>>

NextMonitor ==
    \/ Start
    \/ Stop
    \/ \E l \in LoopIds : PingLoopFire(l)
    \/ \E l \in LoopIds, o \in GetOutcomes : GetSettles(l, o)
    \/ \E l \in LoopIds : SleepDone(l)

(* ------------------------------------------------------------------ *)
(* LinkedInContentService: values                                     *)
(* ------------------------------------------------------------------ *)
\* Texts are sequences of characters; "*" is the asterisk, "a" and "b" stand
\* for any two other characters.
Chars == {"*", "a", "b"}

\* JavaScript null and undefined, kept apart from every text.
Null == <<"null">>
Undefined == <<"undefined">>

\* if (content) / if (!content): null, undefined and "" are falsy.
Truthy(c) == c # Null /\ c # Undefined /\ c # <<>>

RECURSIVE TextsOfLen(_)
TextsOfLen(n) ==
    IF n = 0 THEN {<<>>}
    ELSE {Append(t, c) : t \in TextsOfLen(n - 1), c \in Chars}

Texts == UNION {TextsOfLen(n) : n \in 0..MaxTextLen}

\* A settled axios.post to the Gemini endpoint.
\*   kind   "reject": the promise rejected (transport error when status = 0,
\*          a status outside 2xx otherwise); "resolve": it resolved
\*   data   "none": response.data is missing; "obj": it is an object
\*   cand   data.candidates: "missing", "empty" (length 0) or "some"
\*   first  candidates[0]: "nocontent" (no .content), "noparts" (no
\*          .content.parts[0]), "notext" (no .text), "nonstring" (.text is not
\*          a string) or "text" (.text is the string in text)
NoResponse ==
    [kind |-> "none", status |-> 0, data |-> "none", cand |-> "na",
     first |-> "na", text |-> <<>>]

Rejected(st) == [NoResponse EXCEPT !.kind = "reject", !.status = st]

Resolved(st, d, c, f, t) ==
    [kind |-> "resolve", status |-> st, data |-> d, cand |-> c, first |-> f,
     text |-> t]

ResponsesOver(T) ==
    {Rejected(st) : st \in {0, 500}}
    \cup {Resolved(st, "none", "na", "na", <<>>) : st \in {200, 204}}
    \cup {Resolved(st, "obj", c, "na", <<>>) : st \in {200, 204}, c \in {"missing", "empty"}}
    \cup {Resolved(st, "obj", "some", f, <<>>) :
            st \in {200, 204}, f \in {"nocontent", "noparts", "notext", "nonstring"}}
    \cup {Resolved(st, "obj", "some", "text", t) : st \in {200, 204}, t \in T}

Responses == ResponsesOver(Texts)

\* The generation outcomes the workflow runs are driven with.
RunResponses ==
    {Rejected(0),
     Resolved(204, "obj", "some", "text", <<"a">>),
     Resolved(200, "none", "na", "na", <<>>),
     Resolved(200, "obj", "empty", "na", <<>>),
     Resolved(200, "obj", "some", "notext", <<>>)}
    \cup {Resolved(200, "obj", "some", "text", t) :
            t \in {<<>>, <<"*", "*">>, <<"a">>, <<"*", "*", "a", "*">>}}

\* What a call hands back: it threw, or it returned value.
Returned(v) == [threw |-> FALSE, value |-> v]
Threw == [threw |-> TRUE, value |-> Undefined]

(* ------------------------------------------------------------------ *)
(* LinkedInContentService: processGeneratedContent, generateContent   *)
(* ------------------------------------------------------------------ *)
\* Variant of StripDoubleStars for a regex without the g flag: only the first
\* "**" is removed.
RECURSIVE StripDoubleStars_FirstOnly(_)
StripDoubleStars_FirstOnly(s) ==
    IF Len(s) < 2 THEN s
    ELSE IF s[1] = "*" /\ s[2] = "*" THEN SubSeq(s, 3, Len(s))
    ELSE <<s[1]>> \o StripDoubleStars_FirstOnly(Tail(s))

\* text.replace(/\*\*/g, ''): scanning left to right, every match of two
\* adjacent asterisks is removed and the scan resumes after the match.
RECURSIVE StripDoubleStars(_)
StripDoubleStars(s) ==
    IF Len(s) < 2 THEN s
    ELSE IF s[1] = "*" /\ s[2] = "*" THEN StripDoubleStars(SubSeq(s, 3, Len(s)))
    ELSE <<s[1]>> \o StripDoubleStars(Tail(s))

\* response.data.candidates[0].content.parts[0].text.replace(/\*\*/g, ''),
\* which throws a TypeError when a link of the chain is missing or .text has
\* no replace method.
ExtractText(resp) ==
    IF resp.first = "text" THEN Returned(StripDoubleStars(resp.text)) ELSE Threw

\* processGeneratedContent(response)
processGeneratedContent(resp) ==
    IF resp.status # 200 \/ resp.data = "none" \/ resp.cand \in {"missing", "empty"}
    THEN Returned(Null)
    ELSE LET e == ExtractText(resp)
         IN  IF e.threw THEN Returned(Null) ELSE e

\* Variant of generateContent without its try/catch.
generateContent_NoCatch(resp) ==
    IF resp.kind = "reject" THEN Threw ELSE processGeneratedContent(resp)

\* Variant of generateContent whose catch block logs and rethrows.
generateContent_Rethrow(resp) ==
    IF resp.kind = "reject"
    THEN Threw
    ELSE LET p == processGeneratedContent(resp)
         IN  IF p.threw THEN Threw ELSE p

\* generateContent(), given how its axios.post settled.
generateContent(resp) ==
    IF resp.kind = "reject"
    THEN Returned(Null)
    ELSE LET p == processGeneratedContent(resp)
         IN  IF p.threw THEN Returned(Null) ELSE p

\* generateLinkedInContent(), given how its axios.post settled and whether the
\* assignment `resultTOsend = ...` has a declared target (the function lives in
\* an ES module, where assigning an undeclared name is a ReferenceError).
generateLinkedInContent(resp, declared) ==
    IF resp.kind = "reject" THEN Returned(Null)
    ELSE IF resp.status # 200 THEN Returned(Null)
    ELSE IF resp.data = "none" THEN Returned(Null)
    ELSE IF resp.cand \in {"missing", "empty"} THEN Returned(Null)
    ELSE IF resp.first # "text" THEN Returned(Null)
    ELSE IF ~declared THEN Returned(Null)
    ELSE Returned(StripDoubleStars(resp.text))

(* ------------------------------------------------------------------ *)
(* LinkedInContentService: postToLinkedIn, runContentWorkflow and the  *)
(* Server's entry points                                               *)
(* ------------------------------------------------------------------ *)
RunIds == 1..MaxRuns

\* How the axios.post to the ugcPosts endpoint settles: "201" resolves, the
\* others reject (a status outside 2xx, a transport error).
PublishOutcomes == {"201", "http4xx", "network"}

\* What direct callers hand to postToLinkedIn.
DirectContents == {Null, Undefined, <<>>, <<"a">>}

\* An invocation that has not happened yet.
\*   src     "cron" (content timer), "trigger" (POST /trigger-post),
\*           "direct" (postToLinkedIn called on its own)
\*   pc      "generating" / "publishing": awaiting that axios.post; "done"
\*   events  what the invocation did, in order
\*   http    the status POST /trigger-post answered with
NoRun ==
    [pc |-> "none", src |-> "none", resp |-> NoResponse, content |-> Undefined,
     events |-> <<>>, genCalls |-> 0, pubCalls |-> 0, payloads |-> 0,
     pubOutcome |-> "none", pubReturn |-> Undefined, log |-> "none",
     threw |-> FALSE, http |-> "none"]

\* The invocation is over: the promise of its async function settled.
Finish(rec, threw) ==
    [rec EXCEPT !.pc = "done", !.threw = threw]

\* Variant of postToLinkedInGuard that tests only for null.
postToLinkedInGuard_NullOnly(content) ==
    content # Null

\* postToLinkedIn's `if (!content) return`: TRUE when the call goes on.
postToLinkedInGuard(content) ==
    Truthy(content)

\* postToLinkedIn(content) up to its await: the guard, then postData is built
\* and the axios.post is sent.
postToLinkedIn(rec, content) ==
    IF postToLinkedInGuard(content)
    THEN [rec EXCEPT !.pc = "publishing", !.payloads = @ + 1, !.pubCalls = @ + 1,
                     !.events = Append(@, "pubSent")]
    ELSE Finish([rec EXCEPT !.log = "warn"], FALSE)

\* Variant of postToLinkedInSettles without the try/catch, returning whether
\* the post was made.
postToLinkedInSettles_NoCatch(o) ==
    IF o = "201"
    THEN [threw |-> FALSE, value |-> <<"true">>, log |-> "info"]
    ELSE [threw |-> TRUE, value |-> Undefined, log |-> "none"]

\* postToLinkedIn from the settling of its axios.post on: try logs the
\* success, catch logs the error, and the function ends without a return
\* statement either way.
postToLinkedInSettles(o) ==
    IF o = "201"
    THEN [threw |-> FALSE, value |-> Undefined, log |-> "info"]
    ELSE [threw |-> FALSE, value |-> Undefined, log |-> "error"]

\* Variant of runContentWorkflowStart without the await on generateContent():
\* the pending promise is truthy and is handed to postToLinkedIn at once.
runContentWorkflowStart_NoAwait(rec) ==
    [rec EXCEPT !.pc = "publishing", !.genCalls = @ + 1, !.payloads = @ + 1,
                !.pubCalls = @ + 1, !.events = @ \o <<"genSent", "pubSent">>]

\* runContentWorkflow() up to its first await: generateContent() sends the
\* axios.post.
runContentWorkflowStart(rec) ==
    [rec EXCEPT !.pc = "generating", !.genCalls = @ + 1,
                !.events = Append(@, "genSent")]

\* runContentWorkflow() after generateContent() handed back g:
\* if (content) await this.postToLinkedIn(content).
runContentWorkflowResume(rec, g) ==
    LET got == [rec EXCEPT !.content = g.value, !.events = Append(@, "genDone")]
    IN  IF g.threw THEN Finish(got, TRUE)
        ELSE IF Truthy(g.value) THEN postToLinkedIn(got, g.value)
        ELSE Finish(got, FALSE)

\* Variant of triggerPostHandler without the await on runContentWorkflow().
triggerPostHandler_NoAwait(rec) ==
    IF rec.src = "trigger" /\ rec.http = "none"
    THEN [rec EXCEPT !.http = "200", !.events = Append(@, "responded")]
    ELSE rec

\* The POST /trigger-post handler around `await runContentWorkflow()`: once
\* the workflow's promise settles it answers, 200 from the try block or 500
\* from the catch block. Runs of the content timer have no such continuation.
triggerPostHandler(rec) ==
    IF rec.src = "trigger" /\ rec.pc = "done"
    THEN [rec EXCEPT !.http = IF rec.threw THEN "500" ELSE "200",
                     !.events = Append(@, "responded")]
    ELSE rec

InitService ==
    runs = [r \in RunIds |-> NoRun]

\* Variant of FreeRun with an in-progress guard: no invocation starts while
\* another one is in flight.
FreeRun_Serialized(r) ==
    /\ runs[r].pc = "none"
    /\ \A q \in RunIds : q < r => runs[q].pc = "done"

\* The next invocation takes the first unused record.
FreeRun(r) ==
    /\ runs[r].pc = "none"
    /\ \A q \in RunIds : q < r => runs[q].pc # "none"

\* The content timer fires: cron.schedule('0 */5 * * *', ...) calls
\* runContentWorkflow().
CronFire ==
    /\ \E r \in RunIds :
          /\ FreeRun(r)
          /\ runs' = [runs EXCEPT ![r] =
                runContentWorkflowStart([NoRun EXCEPT !.src = "cron"])]
    /\ UNCHANGED <<monitorVars, generatorVars, serverVars>>

\* POST /trigger-post arrives: the handler calls runContentWorkflow().
TriggerPost ==
    /\ \E r \in RunIds :
          /\ FreeRun(r)
          /\ runs' = [runs EXCEPT ![r] =
                triggerPostHandler(runContentWorkflowStart([NoRun EXCEPT !.src = "trigger"]))]
    /\ UNCHANGED <<monitorVars, generatorVars, serverVars>>

\* postToLinkedIn(c) is called on its own.
DirectPost(c) ==
    /\ \E r \in RunIds :
          /\ FreeRun(r)
          /\ runs' = [runs EXCEPT ![r] =
                postToLinkedIn([NoRun EXCEPT !.src = "direct", !.content = c], c)]
    /\ UNCHANGED <<monitorVars, generatorVars, serverVars>>

\* The generation call of run r settles as resp.
GenerateSettles(r, resp) ==
    /\ runs[r].pc = "generating"
    /\ runs' = [runs EXCEPT ![r] =
          triggerPostHandler(
              runContentWorkflowResume([@ EXCEPT !.resp = resp], generateContent(resp)))]
    /\ UNCHANGED <<monitorVars, generatorVars, serverVars>>

\* The publish call of invocation r settles as o.
PublishSettles(r, o) ==
    /\ runs[r].pc = "publishing"
    /\ LET s == postToLinkedInSettles(o)
       IN  runs' = [runs EXCEPT ![r] =
              triggerPostHandler(
                  Finish([@ EXCEPT !.pubOutcome = o, !.pubReturn = s.value,
                                   !.log = s.log,
                                   !.events = Append(@, "pubDone")],
                         s.threw))]
    /\ UNCHANGED <<monitorVars, generatorVars, serverVars>>

NextService ==
    \/ CronFire
    \/ TriggerPost
    \/ \E c \in DirectContents : DirectPost(c)
    \/ \E r \in RunIds, resp \in RunResponses : GenerateSettles(r, resp)
    \/ \E r \in RunIds, o \in PublishOutcomes : PublishSettles(r, o)

(* ------------------------------------------------------------------ *)
(* The generator applied to one settled response                      *)
(* ------------------------------------------------------------------ *)
\* generated before either function has been called
NotCalled == [fn |-> "none", threw |-> FALSE, value |-> Undefined]

CallGenerateContent ==
    /\ generated = NotCalled
    /\ LET g == generateContent(response)
       IN  generated' = [fn |-> "generateContent", threw |-> g.threw, value |-> g.value]
    /\ UNCHANGED <<response, resultTOsendDeclared, monitorVars, serviceVars, serverVars>>

CallGenerateLinkedInContent ==
    /\ generated = NotCalled
    /\ LET g == generateLinkedInContent(response, resultTOsendDeclared)
       IN  generated' = [fn |-> "generateLinkedInContent", threw |-> g.threw,
                         value |-> g.value]
    /\ UNCHANGED <<response, resultTOsendDeclared, monitorVars, serviceVars, serverVars>>

NextGenerator ==
    \/ CallGenerateContent
    \/ CallGenerateLinkedInContent

(* ------------------------------------------------------------------ *)
(* Server process: startup, the two cron timers, KeepAliveService     *)
(* ------------------------------------------------------------------ *)
REQUIRED_ENV_VARS ==
    {"GEMINI_API_KEY", "LINKEDIN_PERSON_ID", "LINKEDIN_ACCESS_TOKEN", "PORT"}

\* The timeout option of each outbound call, in ms; 0 is axios's default,
\* no timeout.
KeepAliveTimeoutMs == 10000
GenerateTimeoutMs == 0
PublishTimeoutMs == 0

TimeoutMs(kind) ==
    CASE kind = "ping" -> KeepAliveTimeoutMs
      [] kind = "generate" -> GenerateTimeoutMs
      [] kind = "publish" -> PublishTimeoutMs

PingIds == 1..MaxPings

\* env.missing: the required variables that are unset or empty;
\* env.keepAlive: KEEP_ALIVE_ENABLED !== 'false'.
Environments == [missing : SUBSET REQUIRED_ENV_VARS, keepAlive : BOOLEAN]

\* The process before index.js is loaded.
\*   phase        "load", "starting" (app.listen called), "listening",
\*                "exited"
\*   exitCode     -1 while the process lives
\*   contentCron, keepAliveCron   cron.schedule calls made for each timer
\*   listenCalls  app.listen calls made
\*   initialPing  the setTimeout of Server.start's listen callback
NotStarted ==
    [phase |-> "load", exitCode |-> -1, contentCron |-> 0, keepAliveCron |-> 0,
     listenCalls |-> 0, initialPing |-> "none"]

Up(s) == s.phase \in {"starting", "listening"}

Exit(s, code) == [s EXCEPT !.phase = "exited", !.exitCode = code]

\* Variant of ValidateEnv that leaves PORT to its default.
ValidateEnv_CredentialsOnly(e) ==
    e.missing \subseteq {"PORT"}

\* REQUIRED_ENV_VARS.forEach(...): TRUE when no variable makes it exit.
ValidateEnv(e) ==
    e.missing = {}

\* Server.setupCronJob()
setupCronJob(s) ==
    [s EXCEPT !.contentCron = @ + 1]

\* Variant of startKeepAlive that schedules the cron job whatever isEnabled is.
startKeepAlive_Unconditional(s, enabled) ==
    [s EXCEPT !.keepAliveCron = @ + 1]

\* KeepAliveService.startKeepAlive(): returns before cron.schedule when the
\* service is disabled.
startKeepAlive(s, enabled) ==
    IF ~enabled THEN s ELSE [s EXCEPT !.keepAliveCron = @ + 1]

\* Server.start(): app.listen(port, callback)
listen(s) ==
    [s EXCEPT !.phase = "starting", !.listenCalls = @ + 1]

\* Loading index.js: the validation, then main(): new Server() (routes, content
\* cron, keep-alive) and server.start().
Startup(e) ==
    IF ~ValidateEnv(e)
    THEN Exit(NotStarted, 1)
    ELSE listen(startKeepAlive(setupCronJob(NotStarted), e.keepAlive))

\* An invocation of pingServer that has not happened yet.
NoPing == [pc |-> "none", attempts |-> 0, outcome |-> "none", threw |-> FALSE]

\* pingServer() up to its await: nothing when disabled, else the axios.get.
pingServer(rec, enabled) ==
    IF ~enabled
    THEN [rec EXCEPT !.pc = "done", !.outcome = "noop"]
    ELSE [rec EXCEPT !.pc = "get", !.attempts = @ + 1]

\* Variant of pingServerSettles that tries again, up to retryCount requests.
pingServerSettles_Retry(rec, o) ==
    IF o = "resolve" THEN [rec EXCEPT !.pc = "done", !.outcome = "ok"]
    ELSE IF rec.attempts < retryCount THEN [rec EXCEPT !.attempts = @ + 1]
    ELSE [rec EXCEPT !.pc = "done", !.outcome = "failed"]

\* Variant of pingServerSettles without the try/catch.
pingServerSettles_NoCatch(rec, o) ==
    IF o = "resolve" THEN [rec EXCEPT !.pc = "done", !.outcome = "ok"]
    ELSE [rec EXCEPT !.pc = "done", !.outcome = "failed", !.threw = TRUE]

\* pingServer() from the settling of its axios.get on: o is "resolve",
\* "reject" or "timeout"; success is logged in try, failure in catch.
pingServerSettles(rec, o) ==
    IF o = "resolve" THEN [rec EXCEPT !.pc = "done", !.outcome = "ok"]
    ELSE [rec EXCEPT !.pc = "done", !.outcome = "failed"]

\* A promise nobody awaits (the cron callbacks, the setTimeout callback) that
\* rejects is an unhandled rejection, which ends the process.
Unhandled(s, threw) ==
    IF threw THEN Exit(s, 1) ELSE s

\* The generation and publish outcomes the server's runs are driven with.
ServerResponses == {Rejected(0), Resolved(200, "obj", "some", "text", <<"a">>)}
ServerPublishOutcomes == {"201", "network"}

ServerIdle ==
    /\ env = [missing |-> {}, keepAlive |-> TRUE]
    /\ server = NotStarted
    /\ pings = [p \in PingIds |-> NoPing]

FreePing(p) ==
    /\ pings[p].pc = "none"
    /\ \A q \in PingIds : q < p => pings[q].pc # "none"

\* `node index.js`: everything up to the return of main().
Boot ==
    /\ server.phase = "load"
    /\ server' = Startup(env)
    /\ UNCHANGED <<env, pings, runs, monitorVars, generatorVars>>

\* The listen callback runs: the server accepts requests and the initial ping
\* is scheduled two minutes ahead.
ListenCallback ==
    /\ server.phase = "starting"
    /\ server' = [server EXCEPT !.phase = "listening", !.initialPing = "armed"]
    /\ UNCHANGED <<env, pings, runs, monitorVars, generatorVars>>

\* app.listen fails (port in use, port out of range): the process exits with
\* code 1, from main's catch or from the unhandled 'error' event.
ListenError ==
    /\ server.phase = "starting"
    /\ server' = Exit(server, 1)
    /\ UNCHANGED <<env, pings, runs, monitorVars, generatorVars>>

\* The state of run rec after a step, and of the process: a rejected promise
\* of a timer's run is unhandled, one of a /trigger-post run is the handler's.
AfterRunStep(s, rec) ==
    Unhandled(s, rec.threw /\ rec.src = "cron")

\* The content cron task fires.
ContentTimerFires ==
    /\ Up(server)
    /\ server.contentCron >= 1
    /\ \E r \in RunIds :
          /\ FreeRun(r)
          /\ runs' = [runs EXCEPT ![r] =
                runContentWorkflowStart([NoRun EXCEPT !.src = "cron"])]
    /\ UNCHANGED <<env, server, pings, monitorVars, generatorVars>>

\* POST /trigger-post reaches the listening server.
TriggerPostArrives ==
    /\ server.phase = "listening"
    /\ \E r \in RunIds :
          /\ FreeRun(r)
          /\ runs' = [runs EXCEPT ![r] =
                triggerPostHandler(runContentWorkflowStart([NoRun EXCEPT !.src = "trigger"]))]
    /\ UNCHANGED <<env, server, pings, monitorVars, generatorVars>>

\* Run r goes on after its generation call settled as resp.
GenerateDone(r, resp) ==
    LET rec == triggerPostHandler(
                  runContentWorkflowResume([runs[r] EXCEPT !.resp = resp],
                                           generateContent(resp)))
    IN  /\ runs' = [runs EXCEPT ![r] = rec]
        /\ server' = AfterRunStep(server, rec)

\* Run r goes on after its publish call settled as o.
PublishDone(r, o) ==
    LET s == postToLinkedInSettles(o)
        rec == triggerPostHandler(
                  Finish([runs[r] EXCEPT !.pubOutcome = o, !.pubReturn = s.value,
                                         !.log = s.log,
                                         !.events = Append(@, "pubDone")],
                         s.threw))
    IN  /\ runs' = [runs EXCEPT ![r] = rec]
        /\ server' = AfterRunStep(server, rec)

\* Ping p goes on after its axios.get settled as o.
PingDone(p, o) ==
    LET rec == pingServerSettles(pings[p], o)
    IN  /\ pings' = [pings EXCEPT ![p] = rec]
        /\ server' = Unhandled(server, rec.threw)

\* The Gemini endpoint answers the generation call of run r.
GenerateAnswered(r, resp) ==
    /\ Up(server)
    /\ runs[r].pc = "generating"
    /\ GenerateDone(r, resp)
    /\ UNCHANGED <<env, pings, monitorVars, generatorVars>>

\* The ugcPosts endpoint answers the publish call of run r.
PublishAnswered(r, o) ==
    /\ Up(server)
    /\ runs[r].pc = "publishing"
    /\ PublishDone(r, o)
    /\ UNCHANGED <<env, pings, monitorVars, generatorVars>>

\* The keep-alive cron task fires: the callback calls pingServer().
KeepAliveTimerFires ==
    /\ Up(server)
    /\ server.keepAliveCron >= 1
    /\ \E p \in PingIds :
          /\ FreePing(p)
          /\ pings' = [pings EXCEPT ![p] = pingServer(NoPing, env.keepAlive)]
    /\ UNCHANGED <<env, server, runs, monitorVars, generatorVars>>

\* The initial-ping timeout fires: the callback calls pingServer().
InitialPingFires ==
    /\ Up(server)
    /\ server.initialPing = "armed"
    /\ \E p \in PingIds :
          /\ FreePing(p)
          /\ pings' = [pings EXCEPT ![p] = pingServer(NoPing, env.keepAlive)]
    /\ server' = [server EXCEPT !.initialPing = "fired"]
    /\ UNCHANGED <<env, runs, monitorVars, generatorVars>>

\* The health endpoint answers ping p: o is "resolve" or "reject".
PingAnswered(p, o) ==
    /\ Up(server)
    /\ pings[p].pc = "get"
    /\ PingDone(p, o)
    /\ UNCHANGED <<env, runs, monitorVars, generatorVars>>

\* The timeout of a pending outbound call expires: axios rejects the call.
\* Only calls made with a timeout option can do so.
RequestTimesOut(kind, id) ==
    /\ Up(server)
    /\ TimeoutMs(kind) > 0
    /\ CASE kind = "ping" ->
              /\ id \in PingIds
              /\ pings[id].pc = "get"
              /\ PingDone(id, "timeout")
              /\ UNCHANGED runs
         [] kind = "generate" ->
              /\ id \in RunIds
              /\ runs[id].pc = "generating"
              /\ GenerateDone(id, Rejected(0))
              /\ UNCHANGED pings
         [] kind = "publish" ->
              /\ id \in RunIds
              /\ runs[id].pc = "publishing"
              /\ PublishDone(id, "network")
              /\ UNCHANGED pings
    /\ UNCHANGED <<env, monitorVars, generatorVars>>

CallKinds == {"ping", "generate", "publish"}

NextServer ==
    \/ Boot
    \/ ListenCallback
    \/ ListenError
    \/ ContentTimerFires
    \/ TriggerPostArrives
    \/ \E r \in RunIds, resp \in ServerResponses : GenerateAnswered(r, resp)
    \/ \E r \in RunIds, o \in ServerPublishOutcomes : PublishAnswered(r, o)
    \/ KeepAliveTimerFires
    \/ InitialPingFires
    \/ \E p \in PingIds, o \in {"resolve", "reject"} : PingAnswered(p, o)
    \/ \E kind \in CallKinds, id \in PingIds \cup RunIds : RequestTimesOut(kind, id)

(* ------------------------------------------------------------------ *)
(* Specifications                                                     *)
(* ------------------------------------------------------------------ *)
\* Nothing pending in the generator harness.
GeneratorIdle ==
    /\ response = NoResponse
    /\ resultTOsendDeclared = FALSE
    /\ generated = NotCalled

\* The state after `new ExternalMonitor(appUrl)`.
Init ==
    /\ InitMonitor
    /\ InitService
    /\ GeneratorIdle
    /\ ServerIdle

SpecMonitor == Init /\ [][NextMonitor]_vars

\* The state after `new Server()`, as far as the content workflow goes.
SpecService == Init /\ [][NextService]_vars

\* One settled generation response, drawn from Responses.
InitGenerator ==
    /\ InitMonitor
    /\ InitService
    /\ response \in Responses
    /\ resultTOsendDeclared \in BOOLEAN
    /\ generated = NotCalled
    /\ ServerIdle

SpecGenerator == InitGenerator /\ [][NextGenerator]_vars

\* `node index.js` under any environment.
InitServer ==
    /\ InitMonitor
    /\ InitService
    /\ GeneratorIdle
    /\ env \in Environments
    /\ server = NotStarted
    /\ pings = [p \in PingIds |-> NoPing]

\* A timeout that can expire does expire; no answer of a remote endpoint and
\* no firing is assumed.
FairServer ==
    \A kind \in CallKinds, id \in PingIds \cup RunIds :
        WF_vars(RequestTimesOut(kind, id))

SpecServer == InitServer /\ [][NextServer]_vars /\ FairServer

(* ------------------------------------------------------------------ *)
(* Properties of ExternalMonitor.pingApp and the ping loop            *)
(* ------------------------------------------------------------------ *)
\* No response of the cycle recorded in t was a 200.
AllFailed(t) == \A i \in 1..Len(t) : t[i] # "200"

\* Loop l is between two keep-alive cycles, one of them completed.
CycleEnded(l) ==
    /\ loops[l].pc \in {"timer", "returned"}
    /\ loops[l].trace # <<>>

\* C1: a cycle whose health endpoint failed k times (k < retryCount) and then
\* answered 200 has returned true after exactly k+1 requests, and no request
\* of that cycle follows the 200.
C1_SuccessAfterKFailures ==
    \A l \in LoopIds :
        LET t == loops[l].trace
        IN  (t # <<>> /\ t[Len(t)] = "200") =>
                /\ CycleEnded(l)
                /\ loops[l].last = "true"
                /\ loops[l].gets = Len(t)
                /\ Len(t) <= retryCount
                /\ AllFailed(SubSeq(t, 1, Len(t) - 1))

C1_Witness ==
    \E l \in LoopIds :
        /\ loops[l].trace = <<"error", "error", "200">>
        /\ loops[l].last = "true"
        /\ loops[l].gets = 3

\* C2: a cycle never makes more than retryCount requests; a completed cycle
\* in which every request failed made exactly retryCount requests and
\* returned false.
C2_AttemptsBounded ==
    \A l \in LoopIds :
        /\ loops[l].gets <= retryCount
        /\ loops[l].attempt <= retryCount
        /\ (CycleEnded(l) /\ AllFailed(loops[l].trace)) =>
                /\ loops[l].gets = retryCount
                /\ Len(loops[l].trace) = retryCount
                /\ loops[l].last = "false"

C2_Witness ==
    \E l \in LoopIds :
        /\ CycleEnded(l)
        /\ loops[l].trace = <<"error", "error", "error">>
        /\ loops[l].last = "false"

\* Number of failed responses of t that were not the retryCount-th one.
FailuresBeforeLast(t) ==
    Cardinality({i \in 1..Len(t) : t[i] # "200" /\ i < retryCount})

\* C3: every failed request n < retryCount, whatever the failure, is followed
\* by exactly one sleep of BackoffMs before request n+1; nothing follows the
\* last failure or a success.
C3_EveryFailureBacksOff ==
    \A l \in LoopIds :
        /\ loops[l].sleeps = FailuresBeforeLast(loops[l].trace)
        /\ loops[l].pc = "sleep" => loops[l].delay = BackoffMs

\* One step in which loop l's cycle ends with every request failed.
CycleEndsExhausted(l) ==
    /\ loops[l].pc = "get"
    /\ loops'[l].pc \notin {"get", "sleep"}
    /\ AllFailed(loops'[l].trace)

C4_Step ==
    \A l \in LoopIds :
        /\ CycleEndsExhausted(l) =>
                /\ isRunning' = isRunning
                /\ loops'[l].pc = "timer"
                /\ loops'[l].delay = pingInterval
                /\ loops'[l].last = "false"
        /\ (loops[l].pc = "timer" /\ loops'[l].pc # "timer" /\ isRunning) =>
                /\ loops'[l].pc = "get"
                /\ loops'[l].attempt = 1
                /\ loops'[l].gets = 1
                /\ loops'[l].sleeps = 0
                /\ loops'[l].trace = <<>>

\* C4: the step that exhausts a cycle leaves isRunning as it was and arms the
\* pingLoop timer with pingInterval; the cycle a fired timer starts while the
\* monitor runs begins at attempt 1 with nothing carried over.
C4_ExhaustedNotFatal == [][C4_Step]_vars

C4_Witness ==
    \E l \in LoopIds :
        /\ isRunning
        /\ loops[l].last = "false"
        /\ loops[l].pc = "get"
        /\ loops[l].attempt = 1

(* ------------------------------------------------------------------ *)
(* Properties of the content workflow                                 *)
(* ------------------------------------------------------------------ *)
\* How often e occurs in the event list ev.
Count(ev, e) == Cardinality({i \in 1..Len(ev) : ev[i] = e})

\* Every b in ev has an a somewhere before it.
Precedes(ev, a, b) ==
    \A i \in 1..Len(ev) : ev[i] = b => \E j \in 1..(i - 1) : ev[j] = a

IsWorkflowRun(r) == runs[r].src \in {"cron", "trigger"}

\* C5: in every invocation of runContentWorkflow the publish request is sent
\* only after the generation call of that invocation completed, and the
\* invocation makes at most one generation call and builds and sends at most
\* one post payload.
C5_GenerateBeforePublish ==
    \A r \in RunIds :
        IsWorkflowRun(r) =>
            /\ Precedes(runs[r].events, "genDone", "pubSent")
            /\ runs[r].genCalls <= 1
            /\ Count(runs[r].events, "genSent") <= 1
            /\ runs[r].pubCalls <= 1
            /\ runs[r].payloads <= 1
            /\ Count(runs[r].events, "pubSent") <= 1

C5_Witness ==
    \E r \in RunIds :
        /\ runs[r].src = "cron"
        /\ runs[r].pc = "done"
        /\ runs[r].events = <<"genSent", "genDone", "pubSent", "pubDone">>

\* C6: a POST /trigger-post whose generation and publish both succeed makes
\* exactly one generate call and then exactly one publish call, the same
\* sequence a content-timer run makes, and answers only once both completed.
C6_TriggerRunsWorkflow ==
    \A r \in RunIds :
        /\ (runs[r].src = "trigger" /\ runs[r].http # "none") => runs[r].pc = "done"
        /\ (runs[r].src = "trigger" /\ runs[r].pc = "done" /\ runs[r].pubOutcome = "201") =>
                /\ runs[r].events =
                       <<"genSent", "genDone", "pubSent", "pubDone", "responded">>
                /\ runs[r].genCalls = 1
                /\ runs[r].pubCalls = 1
                /\ runs[r].http = "200"
        /\ (runs[r].src = "cron" /\ runs[r].pc = "done" /\ runs[r].pubOutcome = "201") =>
                /\ runs[r].events = <<"genSent", "genDone", "pubSent", "pubDone">>
                /\ runs[r].genCalls = 1
                /\ runs[r].pubCalls = 1

C6_Witness ==
    \E r \in RunIds :
        /\ runs[r].src = "trigger"
        /\ Truthy(runs[r].content)
        /\ runs[r].pubOutcome = "201"
        /\ runs[r].http = "200"

\* C7: no publish request is sent for an absent or empty text: postToLinkedIn
\* called with null, undefined or "" sends nothing, and a workflow run whose
\* generation failed or whose cleaned text is empty ends without a publish.
C7_NoPublishWithoutText ==
    \A r \in RunIds :
        (runs[r].pc \notin {"none", "generating"} /\ ~Truthy(runs[r].content)) =>
            /\ runs[r].pc = "done"
            /\ runs[r].pubCalls = 0
            /\ runs[r].payloads = 0
            /\ Count(runs[r].events, "pubSent") = 0

C7_Witness ==
    \E r, q \in RunIds :
        /\ runs[r].src = "direct"
        /\ runs[r].content = <<>>
        /\ runs[r].pc = "done"
        /\ runs[r].pubCalls = 0
        /\ IsWorkflowRun(q)
        /\ runs[q].resp = Resolved(200, "obj", "some", "text", <<"*", "*">>)
        /\ runs[q].pc = "done"
        /\ runs[q].pubCalls = 0

Published(r) == runs[r].pubOutcome # "none"

\* C8 as stated: postToLinkedIn with non-empty text never throws and what it
\* returns tells a successful post from a failed one.
C8_PublishReportsOutcome ==
    /\ \A r \in RunIds : Published(r) => ~runs[r].threw
    /\ \A r, q \in RunIds :
          (/\ Published(r)
           /\ Published(q)
           /\ runs[r].pubOutcome = "201"
           /\ runs[q].pubOutcome # "201") => runs[r].pubReturn # runs[q].pubReturn

\* C8 as amended: postToLinkedIn with non-empty text sends one request, never
\* throws, and returns undefined whether the post succeeded or failed; the
\* outcome shows only in the log line (info on success, error on failure),
\* and a /trigger-post waiting on it answers 200 either way.
C8_PublishNeverThrows ==
    \A r \in RunIds :
        Published(r) =>
            /\ runs[r].pc = "done"
            /\ ~runs[r].threw
            /\ runs[r].pubReturn = Undefined
            /\ runs[r].pubCalls = 1
            /\ runs[r].log = (IF runs[r].pubOutcome = "201" THEN "info" ELSE "error")
            /\ runs[r].src = "trigger" => runs[r].http = "200"

C8_Witness ==
    \E r, q \in RunIds :
        /\ runs[r].pubOutcome = "201"
        /\ runs[q].pubOutcome = "network"
        /\ Truthy(runs[r].content)
        /\ Truthy(runs[q].content)

(* ------------------------------------------------------------------ *)
(* Properties of the generator                                        *)
(* ------------------------------------------------------------------ *)
\* The generation outcomes of C9: a transport error or rejected status, a
\* status other than 200, no data, a missing or empty candidate list, a first
\* candidate without a usable text.
FailedGeneration(resp) ==
    \/ resp.kind = "reject"
    \/ resp.status # 200
    \/ resp.data = "none"
    \/ resp.cand \in {"missing", "empty"}
    \/ resp.first # "text"

\* C9: the generator never throws, and for every failed generation outcome
\* it returns null.
C9_GeneratorNeverThrows ==
    generated.fn # "none" =>
        /\ ~generated.threw
        /\ FailedGeneration(response) => generated.value = Null

C9_Witness ==
    /\ generated.fn = "generateContent"
    /\ response = Resolved(200, "obj", "some", "notext", <<>>)
    /\ generated.value = Null
    /\ ~generated.threw

NoDoubleStar(s) ==
    \A i \in 1..(Len(s) - 1) : ~(s[i] = "*" /\ s[i + 1] = "*")

IsOther(c) == c # "*"

\* The characters of s that are not asterisks, in order.
Others(s) == SelectSeq(s, IsOther)

\* The lengths of the runs of asterisks of s: before the first other
\* character, between consecutive other characters, after the last one.
RECURSIVE StarRuns(_)
StarRuns(s) ==
    IF s = <<>> THEN <<0>>
    ELSE LET rest == StarRuns(Tail(s))
         IN  IF s[1] = "*" THEN <<rest[1] + 1>> \o Tail(rest) ELSE <<0>> \o rest

\* C10: the text processGeneratedContent returns has no "**" in it, keeps
\* every other character in order, and keeps of each run of asterisks one
\* asterisk when the run is odd and none when it is even.
C10_CleanedText ==
    (generated.fn = "generateContent" /\ ~FailedGeneration(response)) =>
        LET in == response.text
            out == generated.value
        IN  /\ NoDoubleStar(out)
            /\ Others(out) = Others(in)
            /\ Len(StarRuns(out)) = Len(StarRuns(in))
            /\ \A i \in 1..Len(StarRuns(in)) : StarRuns(out)[i] = StarRuns(in)[i] % 2

C10_Witness ==
    /\ generated.fn = "generateContent"
    /\ response = Resolved(200, "obj", "some", "text", <<"*", "*", "*", "a">>)
    /\ generated.value = <<"*", "a">>

(* ------------------------------------------------------------------ *)
(* Properties of the server process                                   *)
(* ------------------------------------------------------------------ *)
Loaded == server.phase # "load"

\* The process ended during startup, before anything was started.
ExitedAtValidation ==
    /\ server.phase = "exited"
    /\ server.exitCode = 1
    /\ server.listenCalls = 0
    /\ server.contentCron = 0
    /\ server.keepAliveCron = 0
    /\ server.initialPing = "none"
    /\ \A r \in RunIds : runs[r].pc = "none"
    /\ \A p \in PingIds : pings[p].pc = "none"

\* C11 as stated: with a required variable missing the process exits non-zero
\* before the listener and both timers; with all present the listener is
\* started and both timers are armed once.
C11_FailFastBothTimers ==
    /\ (Loaded /\ env.missing # {}) => ExitedAtValidation
    /\ (Loaded /\ env.missing = {}) =>
            /\ server.listenCalls = 1
            /\ server.contentCron = 1
            /\ server.keepAliveCron = 1

\* C11 as amended: with a required variable missing the process exits with
\* code 1 before the listener and both timers; with all present app.listen is
\* called once, the content timer is armed once, and the keep-alive timer is
\* armed once when keep-alive is enabled and not at all when it is disabled.
C11_FailFast ==
    /\ (Loaded /\ env.missing # {}) => ExitedAtValidation
    /\ (Loaded /\ env.missing = {}) =>
            /\ server.listenCalls = 1
            /\ server.contentCron = 1
            /\ server.keepAliveCron = (IF env.keepAlive THEN 1 ELSE 0)

C11_Witness ==
    /\ env.missing = {"PORT"}
    /\ server.phase = "exited"
    /\ server.exitCode = 1

\* Number of pingServer invocations so far.
PingCalls == Cardinality({p \in PingIds : pings[p].pc # "none"})

\* C12 as stated: the keep-alive timer is armed whether or not keep-alive is
\* enabled, and with keep-alive disabled no invocation of pingServer sends a
\* health request.
C12_TimerArmedRegardless ==
    /\ (Loaded /\ env.missing = {}) => server.keepAliveCron = 1
    /\ ~env.keepAlive => \A p \in PingIds : pings[p].attempts = 0

\* C12 as amended: the keep-alive timer is armed only when keep-alive is
\* enabled; when it is disabled the timer does not exist, the only call of
\* pingServer is the initial delayed ping after startup, and that call is a
\* no-op sending no health request.
C12_DisabledSendsNothing ==
    /\ (Loaded /\ env.missing = {}) =>
            server.keepAliveCron = (IF env.keepAlive THEN 1 ELSE 0)
    /\ ~env.keepAlive =>
            /\ \A p \in PingIds :
                  /\ pings[p].attempts = 0
                  /\ pings[p].pc \in {"none", "done"}
                  /\ pings[p].pc = "done" => pings[p].outcome = "noop"
            /\ PingCalls = (IF server.initialPing = "fired" THEN 1 ELSE 0)

C12_Witness ==
    /\ ~env.keepAlive
    /\ server.phase = "listening"
    /\ server.keepAliveCron = 0
    /\ server.initialPing = "fired"
    /\ pings[1].pc = "done"
    /\ pings[1].outcome = "noop"

\* C13: every started workflow run and every started keep-alive ping
\* completes, and so every /trigger-post is answered, as long as the process
\* lives, even if the remote endpoint never answers.
C13_EveryCallCompletes ==
    /\ \A r \in RunIds :
          (runs[r].pc \in {"generating", "publishing"})
              ~> (runs[r].pc = "done" \/ ~Up(server))
    /\ \A p \in PingIds :
          (pings[p].pc = "get") ~> (pings[p].pc = "done" \/ ~Up(server))

\* What does hold under FairServer: every started keep-alive ping completes.
PingsComplete ==
    \A p \in PingIds :
        (pings[p].pc = "get") ~> (pings[p].pc = "done" \/ ~Up(server))

C14_Step ==
    /\ Loaded =>
          /\ server'.contentCron = server.contentCron
          /\ server'.keepAliveCron = server.keepAliveCron
    /\ (Up(server) /\ ~Up(server')) =>
          /\ server.phase = "starting"
          /\ runs' = runs
          /\ pings' = pings

C14_FiringsOpen ==
    /\ (Up(server) /\ \E r \in RunIds : runs[r].pc = "none") =>
          ENABLED ContentTimerFires
    /\ (Up(server) /\ env.keepAlive /\ \E p \in PingIds : pings[p].pc = "none") =>
          ENABLED KeepAliveTimerFires

\* C14: no step after startup disarms either timer; whatever runs and pings
\* are in flight or have failed, each armed timer can fire; and the process
\* never stops in a step that settles a generate, publish or ping call.
C14_TimersIndependent == [][C14_Step]_vars /\ []C14_FiringsOpen

C14_Witness ==
    /\ Up(server)
    /\ runs[1].src = "cron"
    /\ runs[1].pc = "done"
    /\ runs[1].content = Null
    /\ pings[1].outcome = "failed"
    /\ runs[2].src = "cron"
    /\ runs[2].pc = "publishing"
    /\ pings[2].pc = "get"

\* C15 as stated: a firing of the keep-alive timer whose ping failed has
\* tried again within the firing.
C15_FiringRetries ==
    \A p \in PingIds :
        (pings[p].pc = "done" /\ pings[p].outcome = "failed") => pings[p].attempts > 1

\* C15 as amended: each firing of the in-process keep-alive timer sends
\* exactly one health request; a failed ping is logged and ends the firing
\* without a retry and without an error leaving pingServer.
C15_OnePingPerFiring ==
    \A p \in PingIds :
        /\ pings[p].attempts <= 1
        /\ pings[p].pc = "get" => pings[p].attempts = 1
        /\ pings[p].outcome \in {"ok", "failed"} =>
              /\ pings[p].pc = "done"
              /\ pings[p].attempts = 1
              /\ ~pings[p].threw

C15_Witness ==
    \E p \in PingIds :
        /\ pings[p].pc = "done"
        /\ pings[p].outcome = "failed"
        /\ pings[p].attempts = 1

(* ------------------------------------------------------------------ *)
(* Properties of concurrent workflow runs                             *)
(* ------------------------------------------------------------------ *)
InFlight(r) == runs[r].pc \in {"generating", "publishing"}

C16_Step ==
    \A r \in RunIds :
        (runs[r].pc = "none" /\ runs'[r].src \in {"cron", "trigger"}) =>
            /\ runs'[r].pc = "generating"
            /\ runs'[r].genCalls = 1
            /\ \A q \in RunIds : q # r => runs'[q] = runs[q]

C16_Open ==
    (\E r \in RunIds : runs[r].pc = "none") =>
        /\ ENABLED CronFire
        /\ ENABLED TriggerPost

\* C16: a content-timer firing or a POST /trigger-post can start a run
\* whatever other runs are in flight; the new run sends its generation call
\* in the same step and leaves the other runs as they are.
C16_RunsNotSerialized == [][C16_Step]_vars /\ []C16_Open

\* Two runs in flight at once, each with its own post on the way.
C16_Witness ==
    /\ runs[1].src = "cron"
    /\ runs[2].src = "trigger"
    /\ runs[1].pc = "publishing"
    /\ runs[2].pc = "publishing"
    /\ runs[1].payloads = 1
    /\ runs[2].payloads = 1

\* C19: POST /trigger-post never answers 500: it answers 200 when its run
\* completes, also when generation or publish failed, and not before.
C19_TriggerAlwaysSucceeds ==
    \A r \in RunIds :
        /\ runs[r].http # "500"
        /\ ~runs[r].threw
        /\ (runs[r].src = "trigger" /\ runs[r].pc = "done") => runs[r].http = "200"
        /\ (runs[r].src = "trigger" /\ runs[r].pc # "done") => runs[r].http = "none"

C19_Witness ==
    \E r, q \in RunIds :
        /\ runs[r].src = "trigger"
        /\ runs[r].resp = Rejected(0)
        /\ runs[r].content = Null
        /\ runs[r].http = "200"
        /\ runs[q].src = "trigger"
        /\ runs[q].pubOutcome = "network"
        /\ runs[q].http = "200"

(* ------------------------------------------------------------------ *)
(* Properties of ExternalMonitor.start and stop                       *)
(* ------------------------------------------------------------------ *)
C17_Step ==
    ~isRunning =>
        \A l \in LoopIds :
            /\ ~(loops[l].pc = "timer" /\ loops'[l].pc = "get")
            /\ (loops[l].pc = "sleep" /\ loops'[l] # loops[l]) =>
                  /\ loops'[l].pc = "get"
                  /\ loops'[l].attempt = loops[l].attempt + 1
            /\ (/\ loops[l].pc = "get"
                /\ loops'[l] # loops[l]
                /\ loops[l].attempt < retryCount
                /\ AllFailed(loops'[l].trace)) =>
                  \/ loops'[l].pc = "sleep"
                  \/ /\ loops'[l].pc = "get"
                     /\ loops'[l].attempt = loops[l].attempt + 1

C17_InFlightGoesOn ==
    \A l \in LoopIds :
        /\ loops[l].pc = "sleep" => ENABLED SleepDone(l)
        /\ loops[l].pc = "get" => ENABLED GetSettles(l, "error")

\* C17: while isRunning is false no keep-alive cycle begins; a cycle in flight
\* is not cancelled: its pending request and sleep still end, and a failed
\* attempt below the ceiling is still followed by the next one.
C17_StopDoesNotCancel == [][C17_Step]_vars /\ []C17_InFlightGoesOn

C17_Witness ==
    /\ ~isRunning
    /\ loops[1].pc = "get"
    /\ loops[1].attempt = 3
    /\ loops[1].sleeps = 2
    /\ loops[2].pc = "none"

\* The loops that have a pending timer or a cycle in flight.
LiveLoops == {l \in LoopIds : loops[l].pc \in {"timer", "get", "sleep"}}

\* C18: at most one ping loop exists at any time.
C18_AtMostOneLoop == Cardinality(LiveLoops) <= 1

====
